---- MODULE Spec2Model ----
(***************************************************************************)
(* query-with-cache: the two cache stores (CacheStoreInMemory, a tree of   *)
(* nested Maps, and CacheStoreMMKV, a flat string-keyed store) driven by   *)
(* the same sequence of calls, with a discrete clock for Date.now() and    *)
(* the setInterval timer of the garbage collector; and queryWithCache,     *)
(* called on one of the two stores, as a process that suspends at          *)
(* await queryFn().                                                        *)
(*                                                                         *)
(* JavaScript strings are sequences of chunks (<<"a", ":", "b">> is        *)
(* "a:b"); no chunk is a prefix of another, so concatenation, equality and *)
(* startsWith on chunk sequences are those of the strings.                 *)
(***************************************************************************)
EXTENDS Integers, Sequences, FiniteSets, TLC

\* ---------------------------------------------------------------- bounds
\* The clock runs from 0 to MaxTime.
MaxTime == 2
\* The number of set / invalidate / cleanUp calls of one run.
MaxOps == 3

\* ------------------------------------------------------------- JS values
\* An optional number is <<>> (undefined) or <<n>>.
Undefined == <<>>
\* data values: null, undefined, and the payloads.
Null == "null"
UndefinedData == "undefined"
Data == {"d1", "d2"}

\* cache.constants: the library defaults, in the clock's units.
DEFAULT_STALE_TIME == 2
DEFAULT_CACHE_TIME == 3
DEFAULT_GC_INTERVAL == 2

\* x ?? y
Coalesce(x, y) == IF x # Undefined THEN x ELSE y

\* ------------------------------------------------------------ cache keys
\* The segments of a CacheKey, strings here (a number segment is written
\* "#n"), and String(segment) of each as a chunk sequence.
sa == "a"
sb == "b"
sc == "c"
sx == "x"
sMarker == "cacheEntry"
sColon == "a:b"
sComma == "a,b"
SegmentString ==
    ("a" :> <<"a">>) @@ ("b" :> <<"b">>) @@ ("c" :> <<"c">>) @@ ("x" :> <<"x">>)
    @@ ("cacheEntry" :> <<"cacheEntry">>)
    @@ ("a:b" :> <<"a", ":", "b">>) @@ ("a,b" :> <<"a", ",", "b">>)

\* The keys one run sets: a hierarchy three levels deep with two siblings,
\* keys with the segment "cacheEntry", keys whose segments hold the
\* characters ":" and ",". invalidate is called on these and their prefixes.
KeysHierarchy == {<<sa>>, <<sa, sb, sc>>, <<sa, sb, sx>>}
KeysMarker == {<<sa>>, <<sa, sMarker>>, <<sa, sMarker, sb>>}
KeysDelimiter == {<<sa, sb>>, <<sColon>>, <<sComma, sc>>}
Universes == {KeysHierarchy, KeysMarker, KeysDelimiter}

\* The set calls made: set({key, data: "d1"}), with the store's default
\* times, and set({key, data: "d2", staleTime: 1, cacheTime: 1}).
SetArgs ==
    {[data |-> "d1", staleTime |-> Undefined, cacheTime |-> Undefined],
     [data |-> "d2", staleTime |-> <<1>>, cacheTime |-> <<1>>]}

\* The constructor's options: none given (the default parameter), or custom.
DefaultOptions ==
    [gcInterval |-> <<DEFAULT_GC_INTERVAL>>,
     defaultStaleTime |-> <<DEFAULT_STALE_TIME>>,
     defaultCacheTime |-> <<DEFAULT_CACHE_TIME>>]
OptionChoices == {DefaultOptions}

IsPrefix(p, k) == Len(p) <= Len(k) /\ SubSeq(k, 1, Len(p)) = p
Prefixes(ks) == UNION {{SubSeq(k, 1, n) : n \in 1..Len(k)} : k \in ks}

\* ------------------------------------------------------------ CacheEntry
CacheEntry(data, timestamp, staleTime, cacheTime) ==
    [data |-> data, timestamp |-> timestamp,
     staleTime |-> staleTime, cacheTime |-> cacheTime]

\* x || y on optional numbers: 0 counts as absent.
CoalesceOr(x, y) == IF x # Undefined /\ x # <<0>> THEN x ELSE y

\* An entry built with || in place of ??.
NewEntryWithOr(options, data, staleTime, cacheTime, t) ==
    CacheEntry(data, t,
        CoalesceOr(CoalesceOr(staleTime, options.defaultStaleTime),
                   <<DEFAULT_STALE_TIME>>)[1],
        CoalesceOr(CoalesceOr(cacheTime, options.defaultCacheTime),
                   <<DEFAULT_CACHE_TIME>>)[1])

\* The entry set() builds.
NewEntry(options, data, staleTime, cacheTime, t) ==
    CacheEntry(data, t,
        Coalesce(Coalesce(staleTime, options.defaultStaleTime),
                 <<DEFAULT_STALE_TIME>>)[1],
        Coalesce(Coalesce(cacheTime, options.defaultCacheTime),
                 <<DEFAULT_CACHE_TIME>>)[1])

\* Date.now() - entry.timestamp > entry.staleTime
isStale(entry, t) == t - entry.timestamp > entry.staleTime

\* A sweep that also removes an entry whose age equals its cacheTime.
isExpiredInclusive(entry, t) == t - entry.timestamp >= entry.cacheTime

\* currentTime - entry.timestamp > entry.cacheTime
isExpired(entry, t) == t - entry.timestamp > entry.cacheTime

Miss == [data |-> Null, stale |-> FALSE]

\* ------------------------------------------------- CacheStoreInMemory
\* The tree of Maps, flattened: the store maps the path of every binding
\* ([k1, ..., kn] for root.get(k1)...get(kn)) to the value bound there, a Map
\* or a CacheEntry. The root Map is the empty path.
MapValue == [isMap |-> TRUE]
EntryValue(e) == [isMap |-> FALSE, entry |-> e]
EmptyStore == (<<>> :> MapValue)

Restrict(f, S) == [p \in S |-> f[p]]

\* map.delete(k) on the Map at the parent of path p: the binding and all
\* that was reachable through it.
DeletePath(st, p) == Restrict(st, {q \in DOMAIN st : ~IsPrefix(p, q)})

\* map.set(k, v) on the Map at the parent of path p: the old value, with all
\* that was reachable through it, is replaced.
BindPath(st, p, v) == (p :> v) @@ DeletePath(st, p)

NoNode == [found |-> FALSE, path |-> <<>>]
NodeAt(p) == [found |-> TRUE, path |-> p]

RECURSIVE getNodeFrom(_, _, _)
getNodeFrom(st, current, rest) ==
    IF rest = <<>> THEN current
    ELSE IF ~current.found \/ ~st[current.path].isMap THEN NoNode
    ELSE LET nxt == Append(current.path, Head(rest))
         IN getNodeFrom(st, IF nxt \in DOMAIN st THEN NodeAt(nxt) ELSE NoNode,
                        Tail(rest))

getNode(st, key) == getNodeFrom(st, NodeAt(<<>>), key)

\* getOrCreateNode: [store, node, threw]; threw when current is not a Map
\* (current.has is not a function).
RECURSIVE getOrCreateNodeFrom(_, _, _)
getOrCreateNodeFrom(st, current, rest) ==
    IF rest = <<>> THEN [store |-> st, node |-> current, threw |-> FALSE]
    ELSE IF ~st[current].isMap
         THEN [store |-> st, node |-> current, threw |-> TRUE]
    ELSE LET nxt == Append(current, Head(rest))
             st2 == IF nxt \in DOMAIN st THEN st ELSE (nxt :> MapValue) @@ st
         IN getOrCreateNodeFrom(st2, nxt, Tail(rest))

getOrCreateNode(st, key) == getOrCreateNodeFrom(st, <<>>, key)

\* set without the test for an empty key.
MemSetUnchecked(st, options, key, data, staleTime, cacheTime, t) ==
    LET r == getOrCreateNode(st, key)
    IN IF r.threw \/ ~r.store[r.node].isMap
       THEN [store |-> r.store, threw |-> TRUE]
       ELSE [store |-> BindPath(r.store, Append(r.node, sMarker),
                  EntryValue(NewEntry(options, data, staleTime, cacheTime, t))),
             threw |-> FALSE]

\* set: [store, threw].
MemSet(st, options, key, data, staleTime, cacheTime, t) ==
    IF Len(key) = 0 THEN [store |-> st, threw |-> FALSE]
    ELSE LET r == getOrCreateNode(st, key)
         IN IF r.threw \/ ~r.store[r.node].isMap
            THEN [store |-> r.store, threw |-> TRUE]
            ELSE [store |-> BindPath(r.store, Append(r.node, sMarker),
                       EntryValue(NewEntry(options, data, staleTime, cacheTime, t))),
                  threw |-> FALSE]

MemGet(st, key, t) ==
    LET node == getNode(st, key)
    IN IF ~node.found \/ ~st[node.path].isMap
          \/ Append(node.path, sMarker) \notin DOMAIN st
       THEN Miss
       ELSE LET v == st[Append(node.path, sMarker)]
            IN IF v.isMap
               \* a Map read as an entry: data is undefined, NaN > undefined
               THEN [data |-> UndefinedData, stale |-> FALSE]
               ELSE [data |-> v.entry.data, stale |-> isStale(v.entry, t)]

\* A get that walks the tree with getOrCreateNode.
MemGetCreatesNodes(st, key) == getOrCreateNode(st, key).store

\* The store after get: getNode, has and get write nothing.
MemGetEffect(st, key) == st

\* An invalidate that deletes the entry at the key only.
MemInvalidateEntryOnly(st, key) == DeletePath(st, Append(key, sMarker))

MemInvalidate(st, key) ==
    IF Len(key) = 0 THEN st
    ELSE LET parentNode == getNode(st, SubSeq(key, 1, Len(key) - 1))
         IN IF parentNode.found /\ st[parentNode.path].isMap
            THEN DeletePath(st, Append(parentNode.path, key[Len(key)]))
            ELSE st

Children(st, node) == {p \in DOMAIN st : Len(p) = Len(node) + 1 /\ IsPrefix(node, p)}

\* The paths cleanUpNode deletes.
RECURSIVE cleanUpNode(_, _, _)
cleanUpNode(st, node, currentTime) ==
    UNION { IF st[c].isMap THEN cleanUpNode(st, c, currentTime)
            ELSE IF isExpired(st[c].entry, currentTime) THEN {c} ELSE {}
            : c \in Children(st, node) }

MemCleanUp(st, t) == Restrict(st, DOMAIN st \ cleanUpNode(st, <<>>, t))

\* ------------------------------------------------------ CacheStoreMMKV
RECURSIVE Join(_, _)
Join(key, sep) ==
    IF Len(key) = 0 THEN <<>>
    ELSE IF Len(key) = 1 THEN SegmentString[key[1]]
    ELSE SegmentString[key[1]] \o <<sep>> \o Join(Tail(key), sep)

keyToString(key) == Join(key, ":")

\* String(path) of an array: Array.prototype.toString joins with ",".
ArrayToString(key) == Join(key, ",")

startsWith(s, p) == Len(p) <= Len(s) /\ SubSeq(s, 1, Len(p)) = p

\* The stored string of an entry.
JSONstringify(entry) == [json |-> entry]
JSONparse(s) == s.json

\* A stored string that is not JSON text, and whether JSON.parse(s) returns.
NotJSON == [text |-> "not json"]
Parses(s) == "json" \in DOMAIN s

\* A call that threw error e.
Thrown(e) == [threw |-> e]

EmptyMMKV == [k \in {} |-> JSONstringify(CacheEntry(Null, 0, 0, 0))]

MMKVSet(kv, options, key, data, staleTime, cacheTime, t) ==
    IF Len(key) = 0 THEN kv
    ELSE (keyToString(key) :>
            JSONstringify(NewEntry(options, data, staleTime, cacheTime, t))) @@ kv

MMKVGet(kv, key, t) ==
    IF keyToString(key) \notin DOMAIN kv THEN Miss
    ELSE IF ~Parses(kv[keyToString(key)]) THEN Thrown("SyntaxError")
    ELSE LET entry == JSONparse(kv[keyToString(key)])
         IN [data |-> entry.data, stale |-> isStale(entry, t)]

\* The records after get: getString writes nothing.
MMKVGetEffect(kv, key) == kv

MMKVInvalidate(kv, path) ==
    LET keyToDelete == keyToString(path)
        keysToDelete == {k \in DOMAIN kv :
                            \/ k = keyToDelete
                            \/ startsWith(k, ArrayToString(path) \o <<":">>)}
    IN Restrict(kv, DOMAIN kv \ keysToDelete)

\* cleanUp: the runs it can make, each [kv, threw]. getAllKeys() gives the
\* keys in an order of its own; the loop deletes the expired records it
\* visits and JSON.parse throws at the first record that does not parse, so
\* any set of the expired records may be deleted by then.
MMKVCleanUp(kv, t) ==
    LET expired == {k \in DOMAIN kv :
                        Parses(kv[k]) /\ isExpired(JSONparse(kv[k]), t)}
    IN IF \A k \in DOMAIN kv : Parses(kv[k])
       THEN {[kv |-> Restrict(kv, DOMAIN kv \ expired), threw |-> FALSE]}
       ELSE {[kv |-> Restrict(kv, DOMAIN kv \ deleted), threw |-> TRUE] :
                deleted \in SUBSET expired}

\* ----------------------------------------------------------------- state
VARIABLES
    store,        \* CacheStoreInMemory.store
    mmkv,         \* CacheStoreMMKV.mmkvInstance
    options,      \* the options both stores were constructed with
    gcIntervalId, \* gcIntervalId of both stores: TRUE while the timer is set
    nextGc,       \* the time the interval timer is due next
    now,          \* Date.now()
    keys,         \* the keys this run draws from
    ops,          \* set / invalidate / cleanUp calls made
    last,         \* the last call
    calls,        \* per key, the last set call not undone since (history)
    cache,        \* the store handed to queryWithCache: "memory" or "mmkv"
    queries,      \* per call site, the queryWithCache call in flight
    isLoading     \* state.isLoading of the client, set by onIsFetching

vars == <<store, mmkv, options, gcIntervalId, nextGc, now, keys, ops, last,
          calls, cache, queries, isLoading>>

\* What is bound at exactly key: <<>> or <<value>>.
MemRaw(st, key) ==
    IF Append(key, sMarker) \in DOMAIN st THEN <<st[Append(key, sMarker)]>> ELSE <<>>
MMKVRaw(kv, key) ==
    IF keyToString(key) \in DOMAIN kv THEN <<kv[keyToString(key)]>> ELSE <<>>

\* The keys an entry is stored at in the tree, and the physical keys of the
\* flat store.
MemEntryKeys(st) ==
    {SubSeq(p, 1, Len(p) - 1) : p \in {q \in DOMAIN st : ~st[q].isMap}}
NoHits == [mem |-> {}, mmkv |-> {}]
Hits == [mem |-> MemEntryKeys(store), mmkv |-> DOMAIN mmkv]

\* A call: its arguments, whether it threw (set in the in-memory store, a
\* sweep in the flat store), and (for the
\* calls that remove) the keys that held an entry before it.
Call(op, key, data, staleTime, cacheTime, threw, before) ==
    [op |-> op, key |-> key, data |-> data, staleTime |-> staleTime,
     cacheTime |-> cacheTime, threw |-> threw, before |-> before]

NoCall(op) == Call(op, <<>>, Null, Undefined, Undefined, FALSE, NoHits)

NoCalls == [k \in keys |-> <<>>]

\* calls after set(key, ...).
CallsAfterSet(key, data, staleTime) ==
    [k \in keys |-> IF k = key
                    THEN <<[data |-> data, at |-> now, staleTime |-> staleTime]>>
                    ELSE calls[k]]

\* calls after invalidate(key): the key and its extensions are removed.
CallsAfterInvalidate(key) ==
    [k \in keys |-> IF IsPrefix(key, k) THEN <<>> ELSE calls[k]]

\* calls after a sweep: the keys whose entry the sweep removed are removed.
CallsAfterSweep(st2, kv2) ==
    [k \in keys |-> IF MemRaw(st2, k) # MemRaw(store, k)
                       \/ MMKVRaw(kv2, k) # MMKVRaw(mmkv, k)
                    THEN <<>> ELSE calls[k]]

\* this.options.gcInterval ?? DEFAULT_GC_INTERVAL
GcInterval == Coalesce(options.gcInterval, <<DEFAULT_GC_INTERVAL>>)[1]

Init ==
    /\ store = EmptyStore
    /\ mmkv = EmptyMMKV
    /\ options \in OptionChoices
    /\ gcIntervalId = TRUE
    /\ nextGc = GcInterval
    /\ now = 0
    /\ keys \in Universes
    /\ ops = 0
    /\ last = NoCall("new")
    /\ calls = NoCalls
    /\ cache = "memory"
    /\ queries = <<>>
    /\ isLoading = FALSE

Set(key, data, staleTime, cacheTime) ==
    /\ ops < MaxOps
    /\ LET r == MemSet(store, options, key, data, staleTime, cacheTime, now)
       IN /\ store' = r.store
          /\ last' = Call("set", key, data, staleTime, cacheTime, r.threw, NoHits)
    /\ mmkv' = MMKVSet(mmkv, options, key, data, staleTime, cacheTime, now)
    /\ calls' = IF Len(key) = 0 THEN calls ELSE CallsAfterSet(key, data, staleTime)
    /\ ops' = ops + 1
    /\ UNCHANGED <<options, gcIntervalId, nextGc, now, keys, cache, queries, isLoading>>

Get(key) ==
    /\ store' = MemGetEffect(store, key)
    /\ mmkv' = MMKVGetEffect(mmkv, key)
    /\ last' = NoCall("get")
    /\ UNCHANGED <<options, gcIntervalId, nextGc, now, keys, ops, calls, cache,
                   queries, isLoading>>

Invalidate(key) ==
    /\ ops < MaxOps
    /\ store' = MemInvalidate(store, key)
    /\ mmkv' = MMKVInvalidate(mmkv, key)
    /\ last' = Call("invalidate", key, Null, Undefined, Undefined, FALSE, Hits)
    /\ calls' = CallsAfterInvalidate(key)
    /\ ops' = ops + 1
    /\ UNCHANGED <<options, gcIntervalId, nextGc, now, keys, cache, queries, isLoading>>

CleanUp ==
    /\ ops < MaxOps
    /\ store' = MemCleanUp(store, now)
    /\ \E run \in MMKVCleanUp(mmkv, now) :
            /\ mmkv' = run.kv
            /\ last' = Call("cleanUp", <<>>, Null, Undefined, Undefined,
                            run.threw, Hits)
    /\ calls' = CallsAfterSweep(store', mmkv')
    /\ ops' = ops + 1
    /\ UNCHANGED <<options, gcIntervalId, nextGc, now, keys, cache, queries, isLoading>>

\* A callback that logs and does not call cleanUp.
MemTimerCallbackLogsOnly(st, t) == st

\* The setInterval callback of each store.
MemTimerCallback(st, t) == MemCleanUp(st, t)
MMKVTimerCallback(kv, t) == MMKVCleanUp(kv, t)

\* The interval timers fire (both stores were constructed together): the
\* callback runs when the timer is due or, the thread having been busy,
\* later; the timer is then set again, gcInterval from the time it ran.
GcTimer ==
    /\ gcIntervalId
    /\ now >= nextGc
    /\ store' = MemTimerCallback(store, now)
    /\ \E run \in MMKVTimerCallback(mmkv, now) :
            /\ mmkv' = run.kv
            /\ last' = Call("gc", <<>>, Null, Undefined, Undefined, run.threw, Hits)
    /\ nextGc' = now + GcInterval
    /\ calls' = CallsAfterSweep(store', mmkv')
    /\ UNCHANGED <<options, gcIntervalId, now, keys, ops, cache, queries, isLoading>>

\* stopGarbageCollector that logs and leaves the timer set.
StopGarbageCollectorLeavesTimer ==
    /\ last' = NoCall("stopGarbageCollector")
    /\ UNCHANGED <<store, mmkv, options, gcIntervalId, nextGc, now, keys, ops,
                   calls, cache, queries, isLoading>>

StopGarbageCollector ==
    /\ gcIntervalId' = FALSE
    /\ last' = NoCall("stopGarbageCollector")
    /\ UNCHANGED <<store, mmkv, options, nextGc, now, keys, ops, calls, cache,
                   queries, isLoading>>

\* Time passes, whether or not a timer is due.
Tick ==
    /\ now < MaxTime
    /\ now' = now + 1
    /\ last' = NoCall("tick")
    /\ UNCHANGED <<store, mmkv, options, gcIntervalId, nextGc, keys, ops, calls,
                   cache, queries, isLoading>>

Next ==
    \/ \E key \in keys \cup {<<>>}, a \in SetArgs :
            Set(key, a.data, a.staleTime, a.cacheTime)
    \/ \E key \in keys : Get(key)
    \/ \E key \in Prefixes(keys) : Invalidate(key)
    \/ CleanUp
    \/ GcTimer
    \/ StopGarbageCollector
    \/ Tick

Spec == Init /\ [][Next]_vars

\* ------------------------------------------------------- store options
\* The options a store is constructed with: none (the constructor's default
\* argument), an empty object, and objects that give only some options, with
\* 0 among the values given.
StoreOptions ==
    {DefaultOptions,
     [gcInterval |-> Undefined, defaultStaleTime |-> Undefined,
      defaultCacheTime |-> Undefined],
     [gcInterval |-> <<1>>, defaultStaleTime |-> <<0>>,
      defaultCacheTime |-> Undefined],
     [gcInterval |-> Undefined, defaultStaleTime |-> <<1>>,
      defaultCacheTime |-> <<0>>],
     [gcInterval |-> <<1>>, defaultStaleTime |-> Undefined,
      defaultCacheTime |-> <<1>>]}

\* The staleTime and the cacheTime a set call gives, or leaves out.
TimeArgs == {Undefined, <<0>>, <<1>>}

\* The key the calls on these stores use.
OptionsKeys == {<<sa>>}

\* Stores constructed with each of the options, and calls of set with each
\* combination of times, invalidate, cleanUp and stopGarbageCollector on them.
OptionsInit ==
    /\ store = EmptyStore
    /\ mmkv = EmptyMMKV
    /\ options \in StoreOptions
    /\ gcIntervalId = TRUE
    /\ nextGc = GcInterval
    /\ now = 0
    /\ keys = OptionsKeys
    /\ ops = 0
    /\ last = NoCall("new")
    /\ calls = NoCalls
    /\ cache = "memory"
    /\ queries = <<>>
    /\ isLoading = FALSE

OptionsNext ==
    \/ \E key \in keys, staleTime \in TimeArgs, cacheTime \in TimeArgs :
            Set(key, "d1", staleTime, cacheTime)
    \/ \E key \in keys : Invalidate(key)
    \/ CleanUp
    \/ GcTimer
    \/ StopGarbageCollector
    \/ Tick

OptionsSpec == OptionsInit /\ [][OptionsNext]_vars

\* ------------------------------------------------------ automatic sweep
\* Stores constructed with the options {gcInterval: 1}, left to the timer:
\* set calls and the clock only, no cleanUp and no invalidate call. The
\* constructor keeps the object given: the options left out are undefined.
SweepOptions ==
    [gcInterval |-> <<1>>, defaultStaleTime |-> Undefined,
     defaultCacheTime |-> Undefined]

SweepInit ==
    /\ store = EmptyStore
    /\ mmkv = EmptyMMKV
    /\ options = SweepOptions
    /\ gcIntervalId = TRUE
    /\ nextGc = GcInterval
    /\ now = 0
    /\ keys = KeysHierarchy
    /\ ops = 0
    /\ last = NoCall("new")
    /\ calls = NoCalls
    /\ cache = "memory"
    /\ queries = <<>>
    /\ isLoading = FALSE

SweepNext ==
    \/ \E key \in keys, a \in SetArgs : Set(key, a.data, a.staleTime, a.cacheTime)
    \/ GcTimer
    \/ Tick

SweepSpec == SweepInit /\ [][SweepNext]_vars

\* ----------------------------------------------------- persisted records
\* The keys of the calls on a flat store whose records persist.
PersistedKeys == {<<sa>>, <<sb>>}

\* Another writer of the MMKV instance "network-cache" stores, under the
\* physical key of key, a string that is not JSON text.
ForeignWrite(key) ==
    /\ mmkv' = (keyToString(key) :> NotJSON) @@ mmkv
    /\ last' = Call("foreignWrite", key, Null, Undefined, Undefined, FALSE, NoHits)
    /\ UNCHANGED <<store, options, gcIntervalId, nextGc, now, keys, ops, calls,
                   cache, queries, isLoading>>

PersistedInit ==
    /\ store = EmptyStore
    /\ mmkv = EmptyMMKV
    /\ options \in OptionChoices
    /\ gcIntervalId = TRUE
    /\ nextGc = GcInterval
    /\ now = 0
    /\ keys = PersistedKeys
    /\ ops = 0
    /\ last = NoCall("new")
    /\ calls = NoCalls
    /\ cache = "mmkv"
    /\ queries = <<>>
    /\ isLoading = FALSE

PersistedNext ==
    \/ \E key \in keys, a \in SetArgs : Set(key, a.data, a.staleTime, a.cacheTime)
    \/ \E key \in keys : ForeignWrite(key)
    \/ CleanUp
    \/ GcTimer
    \/ Tick

PersistedSpec == PersistedInit /\ [][PersistedNext]_vars

\* ---------------------------------------------------------- queryWithCache
\* The call sites of queryWithCache (DOMAIN queries): each has at most one
\* call in flight, and calls again once its call has completed.
QueryCallers == {1}

\* No call in flight at a call site.
Idle == [pc |-> "idle"]

\* The number 0, a data value that is present and falsy.
Zero == "0"

\* The object payloads, each with its properties in insertion order: "d1r"
\* has the properties of "d1" inserted in the other order.
ObjectProps ==
    ("d1" :> << <<"id", "1">>, <<"title", "cached">> >>)
    @@ ("d1r" :> << <<"title", "cached">>, <<"id", "1">> >>)
    @@ ("d2" :> << <<"id", "1">>, <<"title", "new">> >>)

IsObject(d) == d \in DOMAIN ObjectProps

\* ToBoolean(d), as if (cacheEntry.data) and !cacheEntry.data apply it.
Truthy(d) == d \notin {Null, UndefinedData, Zero}

\* isEqual(a, b) of fast-deep-equal: identical values, or two objects with
\* the same number of properties, every property of a being one of b with
\* an equal (here primitive) value.
isEqual(a, b) ==
    IF a = b THEN TRUE
    ELSE IF IsObject(a) /\ IsObject(b)
    THEN LET pa == ObjectProps[a]
             pb == ObjectProps[b]
         IN /\ Len(pa) = Len(pb)
            /\ \A i \in 1..Len(pa) :
                  \E j \in 1..Len(pb) : pb[j][1] = pa[i][1] /\ pb[j][2] = pa[i][2]
    ELSE FALSE

\* What queryFn resolves to, and what it rejects with.
FetchResults == {"d1", "d1r", "d2", Zero, Null}
FetchErrors == {"E"}

\* The arguments of a call besides queryKey: the time overrides, and whether
\* onIsFetching and onError are supplied.
QueryArgs ==
    {[cacheExpirationTime |-> Undefined, cacheStoredTime |-> Undefined,
      onIsFetching |-> TRUE, onError |-> TRUE],
     [cacheExpirationTime |-> <<1>>, cacheStoredTime |-> <<1>>,
      onIsFetching |-> TRUE, onError |-> FALSE],
     [cacheExpirationTime |-> <<0>>, cacheStoredTime |-> Undefined,
      onIsFetching |-> FALSE, onError |-> TRUE]}

\* The key queryWithCache is called with; invalidate is called on it and on
\* its prefix.
QueryKeys == {<<sa, sb>>}
QueryUniverses == {QueryKeys}

\* A queryWithCache step as the last call: the call it belongs to, as the
\* step left it (completed, or awaiting queryFn()). A call records its
\* arguments, the entry stored at its key when it started (history), what
\* cache.get returned, shouldCallIsFetching, and the log of its events; and,
\* as history, the call sites with a call in flight when it started, the
\* last call that resolved while it awaited (its result, whether it called
\* onData with it, and the length of this call's log by then) and, once its
\* own fetch has resolved, whether the entry stored when it started had been
\* removed by then.
QueryCall(op, q) == [op |-> op, key |-> q.key, query |-> q]

\* An event of a call: a callback or queryFn invoked, the fetch settled, the
\* call returned or threw.
Ev(ev, arg) == [ev |-> ev, arg |-> arg]
BoolString(b) == IF b THEN "true" ELSE "false"

\* state.isLoading after the onIsFetching callbacks among events have run,
\* each assigning its argument (README: state.isLoading = loading).
RECURSIVE LoadingAfter(_, _)
LoadingAfter(loading, events) ==
    IF events = <<>> THEN loading
    ELSE LoadingAfter(IF Head(events).ev = "onIsFetching"
                      THEN Head(events).arg = BoolString(TRUE) ELSE loading,
                      Tail(events))

\* cache.get(queryKey)
cacheGet(key) ==
    IF cache = "memory" THEN MemGet(store, key, now) ELSE MMKVGet(mmkv, key, now)

\* The entry stored at key in the cache, <<>> when there is none.
cacheEntryAt(key) ==
    IF cache = "memory"
    THEN IF MemRaw(store, key) # <<>> /\ ~MemRaw(store, key)[1].isMap
         THEN <<MemRaw(store, key)[1].entry>> ELSE <<>>
    ELSE IF MMKVRaw(mmkv, key) # <<>>
         THEN <<JSONparse(MMKVRaw(mmkv, key)[1])>> ELSE <<>>

\* cache.set({key, data}): a write that leaves out the caller's overrides.
cacheSetWithoutOverrides(key, data, staleTime, cacheTime) ==
    IF cache = "memory"
    THEN LET r == MemSet(store, options, key, data, Undefined, Undefined, now)
         IN [store |-> r.store, mmkv |-> mmkv, threw |-> r.threw]
    ELSE [store |-> store,
          mmkv |-> MMKVSet(mmkv, options, key, data, Undefined, Undefined, now),
          threw |-> FALSE]

\* cache.set({key, data, cacheTime, staleTime}): the two stores after it, and
\* whether it threw.
cacheSet(key, data, staleTime, cacheTime) ==
    IF cache = "memory"
    THEN LET r == MemSet(store, options, key, data, staleTime, cacheTime, now)
         IN [store |-> r.store, mmkv |-> mmkv, threw |-> r.threw]
    ELSE [store |-> store,
          mmkv |-> MMKVSet(mmkv, options, key, data, staleTime, cacheTime, now),
          threw |-> FALSE]

\* A catch block that calls onError and throws the error all the same.
FinishRethrows(q, log, error) ==
    LET caught == IF error # <<>> /\ q.args.onError
                  THEN Append(log, Ev("onError", error[1])) ELSE log
        final == IF q.shouldCallIsFetching
                 THEN Append(caught, Ev("onIsFetching", BoolString(FALSE)))
                 ELSE caught
    IN [q EXCEPT !.pc = IF error # <<>> THEN "rejected" ELSE "resolved",
                 !.log = Append(final, IF error # <<>> THEN Ev("throw", error[1])
                                       ELSE Ev("return", UndefinedData))]

\* A catch block that swallows the error when no onError is supplied.
FinishSwallows(q, log, error) ==
    LET caught == IF error # <<>> /\ q.args.onError
                  THEN Append(log, Ev("onError", error[1])) ELSE log
        final == IF q.shouldCallIsFetching
                 THEN Append(caught, Ev("onIsFetching", BoolString(FALSE)))
                 ELSE caught
    IN [q EXCEPT !.pc = "resolved",
                 !.log = Append(final, Ev("return", UndefinedData))]

\* catch and finally: error is <<>> when the try block completed, <<e>> when
\* it threw e.
Finish(q, log, error) ==
    LET caught == IF error # <<>> /\ q.args.onError
                  THEN Append(log, Ev("onError", error[1])) ELSE log
        final == IF q.shouldCallIsFetching
                 THEN Append(caught, Ev("onIsFetching", BoolString(FALSE)))
                 ELSE caught
        rethrown == error # <<>> /\ ~q.args.onError
    IN [q EXCEPT !.pc = IF rethrown THEN "rejected" ELSE "resolved",
                 !.log = Append(final, IF rethrown THEN Ev("throw", error[1])
                                       ELSE Ev("return", UndefinedData))]

\* queryWithCache(...) at call site c, up to its return or to await
\* queryFn(). Of the idle call sites, the lowest makes the call.
QueryStart(c, key, a) ==
    /\ queries[c] = Idle
    /\ \A d \in DOMAIN queries : d < c => queries[d] # Idle
    /\ LET cacheEntry == cacheGet(key)
           shouldCallIsFetching == ~Truthy(cacheEntry.data) /\ a.onIsFetching
           delivered == IF Truthy(cacheEntry.data)
                        THEN <<Ev("onData", cacheEntry.data)>> ELSE <<>>
           q == [key |-> key, args |-> a, stored |-> cacheEntryAt(key),
                 cacheEntry |-> cacheEntry,
                 shouldCallIsFetching |-> shouldCallIsFetching,
                 pc |-> "await", log |-> delivered,
                 before |-> {d \in DOMAIN queries : queries[d] # Idle},
                 overtaken |-> <<>>]
       IN IF Truthy(cacheEntry.data) /\ ~cacheEntry.stale
          THEN /\ queries' = queries
               /\ isLoading' = isLoading
               /\ last' = QueryCall("queryWithCache",
                    [q EXCEPT !.pc = "resolved",
                              !.log = Append(delivered, Ev("return", UndefinedData))])
          ELSE LET started ==
                    [q EXCEPT !.log =
                        (IF shouldCallIsFetching
                         THEN Append(delivered, Ev("onIsFetching", BoolString(TRUE)))
                         ELSE delivered) \o <<Ev("queryFn", UndefinedData)>>]
               IN /\ queries' = [queries EXCEPT ![c] = started]
                  /\ isLoading' = LoadingAfter(isLoading, started.log)
                  /\ last' = QueryCall("queryWithCache", started)
    /\ store' = (IF cache = "memory" THEN MemGetEffect(store, key) ELSE store)
    /\ mmkv' = (IF cache = "mmkv" THEN MMKVGetEffect(mmkv, key) ELSE mmkv)
    /\ UNCHANGED <<options, gcIntervalId, nextGc, now, keys, ops, calls, cache>>

\* A resolve that does not write when the entry the call read has been
\* removed since.
FetchResolveUnlessRemoved(c, result) ==
    /\ queries[c] # Idle
    /\ LET q == [key |-> queries[c].key, args |-> queries[c].args,
                 stored |-> queries[c].stored,
                 cacheEntry |-> queries[c].cacheEntry,
                 shouldCallIsFetching |-> queries[c].shouldCallIsFetching,
                 pc |-> queries[c].pc, log |-> queries[c].log,
                 before |-> queries[c].before,
                 overtaken |-> queries[c].overtaken,
                 removed |-> /\ queries[c].stored # <<>>
                             /\ cacheEntryAt(queries[c].key) = <<>>]
           settled == Append(q.log, Ev("resolve", result))
           delivered == IF ~isEqual(result, q.cacheEntry.data)
                        THEN Append(settled, Ev("onData", result)) ELSE settled
           r == IF q.removed
                THEN [store |-> store, mmkv |-> mmkv, threw |-> FALSE]
                ELSE cacheSet(q.key, result, q.args.cacheExpirationTime,
                              q.args.cacheStoredTime)
           finished == Finish(q, delivered,
                              IF r.threw THEN <<"TypeError">> ELSE <<>>)
       IN /\ store' = r.store
          /\ mmkv' = r.mmkv
          /\ isLoading' = LoadingAfter(isLoading,
                SubSeq(finished.log, Len(q.log) + 1, Len(finished.log)))
          /\ last' = QueryCall("resolve", finished)
          /\ queries' =
                [d \in DOMAIN queries |->
                    IF d = c \/ queries[d] = Idle THEN Idle
                    ELSE [queries[d] EXCEPT !.overtaken =
                            <<[result |-> result,
                               onData |-> ~isEqual(result, q.cacheEntry.data),
                               at |-> Len(queries[d].log)]>>]]
    /\ UNCHANGED <<options, gcIntervalId, nextGc, now, keys, ops, calls, cache>>

\* A resolve that does not write when another call has written since this
\* one started.
FetchResolveFirstWins(c, result) ==
    /\ queries[c] # Idle
    /\ LET q == [key |-> queries[c].key, args |-> queries[c].args,
                 stored |-> queries[c].stored,
                 cacheEntry |-> queries[c].cacheEntry,
                 shouldCallIsFetching |-> queries[c].shouldCallIsFetching,
                 pc |-> queries[c].pc, log |-> queries[c].log,
                 before |-> queries[c].before,
                 overtaken |-> queries[c].overtaken,
                 removed |-> /\ queries[c].stored # <<>>
                             /\ cacheEntryAt(queries[c].key) = <<>>]
           settled == Append(q.log, Ev("resolve", result))
           delivered == IF ~isEqual(result, q.cacheEntry.data)
                        THEN Append(settled, Ev("onData", result)) ELSE settled
           r == IF q.overtaken # <<>>
                THEN [store |-> store, mmkv |-> mmkv, threw |-> FALSE]
                ELSE cacheSet(q.key, result, q.args.cacheExpirationTime,
                              q.args.cacheStoredTime)
           finished == Finish(q, delivered,
                              IF r.threw THEN <<"TypeError">> ELSE <<>>)
       IN /\ store' = r.store
          /\ mmkv' = r.mmkv
          /\ isLoading' = LoadingAfter(isLoading,
                SubSeq(finished.log, Len(q.log) + 1, Len(finished.log)))
          /\ last' = QueryCall("resolve", finished)
          /\ queries' =
                [d \in DOMAIN queries |->
                    IF d = c \/ queries[d] = Idle THEN Idle
                    ELSE [queries[d] EXCEPT !.overtaken =
                            <<[result |-> result,
                               onData |-> ~isEqual(result, q.cacheEntry.data),
                               at |-> Len(queries[d].log)]>>]]
    /\ UNCHANGED <<options, gcIntervalId, nextGc, now, keys, ops, calls, cache>>

\* The fetch of the call at c resolves to result: the rest of the try block,
\* then catch (cache.set may throw) and finally.
FetchResolve(c, result) ==
    /\ queries[c] # Idle
    /\ LET q == [key |-> queries[c].key, args |-> queries[c].args,
                 stored |-> queries[c].stored,
                 cacheEntry |-> queries[c].cacheEntry,
                 shouldCallIsFetching |-> queries[c].shouldCallIsFetching,
                 pc |-> queries[c].pc, log |-> queries[c].log,
                 before |-> queries[c].before,
                 overtaken |-> queries[c].overtaken,
                 removed |-> /\ queries[c].stored # <<>>
                             /\ cacheEntryAt(queries[c].key) = <<>>]
           settled == Append(q.log, Ev("resolve", result))
           delivered == IF ~isEqual(result, q.cacheEntry.data)
                        THEN Append(settled, Ev("onData", result)) ELSE settled
           r == cacheSet(q.key, result, q.args.cacheExpirationTime,
                         q.args.cacheStoredTime)
           finished == Finish(q, delivered,
                              IF r.threw THEN <<"TypeError">> ELSE <<>>)
       IN /\ store' = r.store
          /\ mmkv' = r.mmkv
          /\ isLoading' = LoadingAfter(isLoading,
                SubSeq(finished.log, Len(q.log) + 1, Len(finished.log)))
          /\ last' = QueryCall("resolve", finished)
          /\ queries' =
                [d \in DOMAIN queries |->
                    IF d = c \/ queries[d] = Idle THEN Idle
                    ELSE [queries[d] EXCEPT !.overtaken =
                            <<[result |-> result,
                               onData |-> ~isEqual(result, q.cacheEntry.data),
                               at |-> Len(queries[d].log)]>>]]
    /\ UNCHANGED <<options, gcIntervalId, nextGc, now, keys, ops, calls, cache>>

\* The fetch of the call at c rejects with error e: catch and finally.
FetchReject(c, e) ==
    /\ queries[c] # Idle
    /\ LET q == queries[c]
           finished == Finish(q, Append(q.log, Ev("reject", e)), <<e>>)
       IN /\ isLoading' = LoadingAfter(isLoading,
                SubSeq(finished.log, Len(q.log) + 1, Len(finished.log)))
          /\ last' = QueryCall("reject", finished)
    /\ queries' = [queries EXCEPT ![c] = Idle]
    /\ UNCHANGED <<store, mmkv, options, gcIntervalId, nextGc, now, keys, ops,
                   calls, cache>>

\* Calls of queryWithCache on one of the two stores, with invalidate calls,
\* sweeps of the timer and the clock in between.
QueryInit ==
    /\ store = EmptyStore
    /\ mmkv = EmptyMMKV
    /\ options \in OptionChoices
    /\ gcIntervalId = TRUE
    /\ nextGc = GcInterval
    /\ now = 0
    /\ keys \in QueryUniverses
    /\ ops = 0
    /\ last = NoCall("new")
    /\ calls = NoCalls
    /\ cache \in {"memory", "mmkv"}
    /\ queries = [c \in QueryCallers |-> Idle]
    /\ isLoading = FALSE

QueryNext ==
    \/ \E c \in DOMAIN queries, key \in keys, a \in QueryArgs : QueryStart(c, key, a)
    \/ \E c \in DOMAIN queries, result \in FetchResults : FetchResolve(c, result)
    \/ \E c \in DOMAIN queries, e \in FetchErrors : FetchReject(c, e)
    \/ \E key \in Prefixes(keys) : Invalidate(key)
    \/ GcTimer
    \/ Tick

QuerySpec == QueryInit /\ [][QueryNext]_vars

\* ------------------------------------------------------ overlapping calls
\* Two call sites, so that two calls of queryWithCache for the same key can
\* both await their fetch; every call reports to onIsFetching and writes
\* with staleTime 0, so that an entry is stale from the next clock tick on.
OverlapCallers == {1, 2}
OverlapArgs ==
    {[cacheExpirationTime |-> <<0>>, cacheStoredTime |-> Undefined,
      onIsFetching |-> TRUE, onError |-> TRUE]}
OverlapResults == {"d1", "d2", Zero}

OverlapInit ==
    /\ store = EmptyStore
    /\ mmkv = EmptyMMKV
    /\ options \in OptionChoices
    /\ gcIntervalId = TRUE
    /\ nextGc = GcInterval
    /\ now = 0
    /\ keys \in QueryUniverses
    /\ ops = 0
    /\ last = NoCall("new")
    /\ calls = NoCalls
    /\ cache \in {"memory", "mmkv"}
    /\ queries = [c \in OverlapCallers |-> Idle]
    /\ isLoading = FALSE

OverlapNext ==
    \/ \E c \in DOMAIN queries, key \in keys, a \in OverlapArgs : QueryStart(c, key, a)
    \/ \E c \in DOMAIN queries, result \in OverlapResults : FetchResolve(c, result)
    \/ \E c \in DOMAIN queries, e \in FetchErrors : FetchReject(c, e)
    \/ GcTimer
    \/ Tick

OverlapSpec == OverlapInit /\ [][OverlapNext]_vars

\* ---------------------------------------------------------------- claims
Hit(data, stale) == [data |-> data, stale |-> stale]

\* C1: on either backend, get(K) right after set(K, V) with a non-empty key
\* returns {data: V, stale: false}, whatever calls came before.
C1_SetThenGet ==
    (last.op = "set" /\ Len(last.key) > 0) =>
        /\ MemGet(store, last.key, now) = Hit(last.data, FALSE)
        /\ MMKVGet(mmkv, last.key, now) = Hit(last.data, FALSE)

\* C2: in the in-memory store, after invalidate(K) get misses for K and for
\* every key K is a prefix of, and nothing is bound below K.
C2_MemInvalidateRemovesSubtree ==
    last.op = "invalidate" =>
        /\ \A k \in Prefixes(keys) :
              IsPrefix(last.key, k) => MemGet(store, k, now) = Miss
        /\ \A p \in DOMAIN store : ~IsPrefix(last.key, p)

\* C2 witness: invalidate(["a"]) was called on a store holding an entry at
\* ["a"] and one two levels below it, at ["a","b","c"].
C2_Witness ==
    /\ last.op = "invalidate"
    /\ last.key = <<sa>>
    /\ {<<sa>>, <<sa, sb, sc>>} \subseteq last.before.mem

\* C3: in the flat store, after invalidate(K), of one segment or several,
\* get misses for K and for every key K is a prefix of.
C3_MMKVInvalidateRemovesDescendants ==
    last.op = "invalidate" =>
        \A k \in Prefixes(keys) :
            IsPrefix(last.key, k) => MMKVGet(mmkv, k, now) = Miss

\* C4: on either backend, invalidate(K) leaves what get returns unchanged
\* for every key that is neither K nor an extension of K.
C4_InvalidateFrame ==
    [][last'.op = "invalidate" =>
        \A k \in Prefixes(keys) :
            ~IsPrefix(last'.key, k) =>
                /\ MemGet(store', k, now') = MemGet(store, k, now)
                /\ MMKVGet(mmkv', k, now') = MMKVGet(mmkv, k, now)]_vars

\* C5: on either backend, get(K) misses in every state where no entry is
\* stored at exactly K: K was never set, or was removed since.
C5_GetIsExactPath ==
    \A k \in keys :
        calls[k] = <<>> =>
            /\ MemGet(store, k, now) = Miss
            /\ MMKVGet(mmkv, k, now) = Miss

\* C6: after set(K, V, staleTime = S), with no later set or removal of K,
\* get(K) returns V, fresh while the time since the set is at most S and
\* stale once it exceeds S.
C6_StaleAfterStaleTime ==
    \A k \in keys :
        (calls[k] # <<>> /\ calls[k][1].staleTime # Undefined) =>
            LET c == calls[k][1]
                expected == Hit(c.data, now - c.at > c.staleTime[1])
            IN /\ MemGet(store, k, now) = expected
               /\ MMKVGet(mmkv, k, now) = expected

\* C7: set(K, ...) with a non-empty key makes get(K) return the new data,
\* fresh, and leaves what get returns for every other key unchanged.
C7_SetFrame ==
    [][(last'.op = "set" /\ Len(last'.key) > 0) =>
        /\ MemGet(store', last'.key, now') = Hit(last'.data, FALSE)
        /\ MMKVGet(mmkv', last'.key, now') = Hit(last'.data, FALSE)
        /\ \A k \in Prefixes(keys) \ {last'.key} :
              /\ MemGet(store', k, now') = MemGet(store, k, now)
              /\ MMKVGet(mmkv', k, now') = MMKVGet(mmkv, k, now)]_vars

\* An entry of age greater than its cacheTime at time t.
Aged(entry, t) == t - entry.timestamp > entry.cacheTime

\* C8: cleanUp() removes exactly the entries older than their own cacheTime,
\* at every depth, and leaves every other entry, and every node, as it was;
\* get misses for the removed keys and is unchanged for the others.
C8_CleanUpRemovesExactlyExpired ==
    [][last'.op = "cleanUp" =>
        /\ DOMAIN store' =
              {p \in DOMAIN store : store[p].isMap \/ ~Aged(store[p].entry, now)}
        /\ \A p \in DOMAIN store' : store'[p] = store[p]
        /\ DOMAIN mmkv' = {k \in DOMAIN mmkv : ~Aged(JSONparse(mmkv[k]), now)}
        /\ \A k \in DOMAIN mmkv' : mmkv'[k] = mmkv[k]
        /\ \A k \in Prefixes(keys) :
              /\ MemGet(store', k, now') =
                    IF MemRaw(store, k) # <<>> /\ ~MemRaw(store, k)[1].isMap
                          /\ Aged(MemRaw(store, k)[1].entry, now)
                    THEN Miss ELSE MemGet(store, k, now)
              /\ MMKVGet(mmkv', k, now') =
                    IF MMKVRaw(mmkv, k) # <<>>
                          /\ Aged(JSONparse(MMKVRaw(mmkv, k)[1]), now)
                    THEN Miss ELSE MMKVGet(mmkv, k, now)]_vars

\* C8 witness: cleanUp() removed the expired entry at ["a"] and kept the
\* unexpired one below it, at ["a","b","c"], in both stores.
C8_Witness ==
    /\ last.op = "cleanUp"
    /\ <<sa>> \in last.before.mem /\ keyToString(<<sa>>) \in last.before.mmkv
    /\ MemGet(store, <<sa>>, now) = Miss
    /\ MMKVGet(mmkv, <<sa>>, now) = Miss
    /\ MemGet(store, <<sa, sb, sc>>, now).data \in Data
    /\ MMKVGet(mmkv, <<sa, sb, sc>>, now).data \in Data

\* The time the interval timer fired last, once it has fired.
TimerHasFired == nextGc > GcInterval
LastFired == nextGc - GcInterval

\* C9: while the garbage collector is not stopped, no entry that was older
\* than its cacheTime when the timer last fired is still stored: the firing
\* removed it, and get misses.
C9_AutomaticSweep ==
    gcIntervalId =>
        /\ TimerHasFired =>
              /\ \A p \in DOMAIN store :
                    store[p].isMap \/ ~Aged(store[p].entry, LastFired)
              /\ \A k \in DOMAIN mmkv : ~Aged(JSONparse(mmkv[k]), LastFired)
        /\ last.op = "gc" =>
              /\ \A k \in last.before.mem \ MemEntryKeys(store) :
                    MemGet(store, k, now) = Miss
              /\ \A k \in Prefixes(keys) :
                    (keyToString(k) \in last.before.mmkv \ DOMAIN mmkv) =>
                        MMKVGet(mmkv, k, now) = Miss

\* C9 witness: the timer fired with the garbage collector running and removed
\* the entry at ["a"] from both stores, no cleanUp() having been called.
C9_Witness ==
    /\ last.op = "gc"
    /\ gcIntervalId
    /\ ops = 1
    /\ <<sa>> \in last.before.mem /\ keyToString(<<sa>>) \in last.before.mmkv
    /\ MemGet(store, <<sa>>, now) = Miss
    /\ MMKVGet(mmkv, <<sa>>, now) = Miss

\* C10: a get call changes no entry and no node of either store, and get
\* returns the data of every stored entry, whatever its age.
C10_GetIsReadOnly ==
    [][last'.op = "get" =>
        /\ store' = store
        /\ mmkv' = mmkv
        /\ \A k \in Prefixes(keys) :
              /\ (MemRaw(store', k) # <<>> /\ ~MemRaw(store', k)[1].isMap) =>
                    MemGet(store', k, now').data = MemRaw(store', k)[1].entry.data
              /\ MMKVRaw(mmkv', k) # <<>> =>
                    MMKVGet(mmkv', k, now').data = JSONparse(MMKVRaw(mmkv', k)[1]).data]_vars

\* C10 witness: get was called while an entry older than its cacheTime was
\* stored at ["a"], and get still returns its data from both stores.
C10_Witness ==
    /\ last.op = "get"
    /\ MemRaw(store, <<sa>>) # <<>>
    /\ ~MemRaw(store, <<sa>>)[1].isMap
    /\ Aged(MemRaw(store, <<sa>>)[1].entry, now)
    /\ MemGet(store, <<sa>>, now).data \in Data
    /\ MMKVRaw(mmkv, <<sa>>) # <<>>
    /\ Aged(JSONparse(MMKVRaw(mmkv, <<sa>>)[1]), now)
    /\ MMKVGet(mmkv, <<sa>>, now).data \in Data

\* C19: set with an empty key does not throw and changes neither store, so
\* get of the empty key and of every other key returns what it returned
\* before, whatever the stores hold.
C19_SetEmptyKeyRejected ==
    [][(last'.op = "set" /\ last'.key = <<>>) =>
        /\ ~last'.threw
        /\ store' = store
        /\ mmkv' = mmkv
        /\ \A k \in Prefixes(keys) \cup {<<>>} :
              /\ MemGet(store', k, now') = MemGet(store, k, now)
              /\ MMKVGet(mmkv', k, now') = MMKVGet(mmkv, k, now)]_vars

\* C19 witness: set with an empty key was called on stores that hold an
\* entry at ["a"]; get of the empty key misses and get(["a"]) returns data.
C19_Witness ==
    /\ last.op = "set"
    /\ last.key = <<>>
    /\ MemGet(store, <<>>, now) = Miss
    /\ MMKVGet(mmkv, <<>>, now) = Miss
    /\ MemGet(store, <<sa>>, now).data \in Data
    /\ MMKVGet(mmkv, <<sa>>, now).data \in Data

\* C20: stopGarbageCollector clears the timer and changes no entry, and a
\* call made when the timer is already cleared changes nothing at all; once
\* the timer is cleared it stays cleared, the timer's sweep takes no step,
\* and only set, invalidate and cleanUp change what the stores hold.
C20_StopGarbageCollector ==
    [][/\ last'.op = "stopGarbageCollector" =>
            /\ ~gcIntervalId'
            /\ store' = store
            /\ mmkv' = mmkv
            /\ ~gcIntervalId =>
                  UNCHANGED <<store, mmkv, options, gcIntervalId, nextGc, now,
                              keys, ops, calls, cache, queries, isLoading>>
       /\ ~gcIntervalId =>
            /\ ~gcIntervalId'
            /\ last'.op # "gc"
            /\ last'.op \notin {"set", "invalidate", "cleanUp"} =>
                  (store' = store /\ mmkv' = mmkv)]_vars

\* C20 witness: stopGarbageCollector was called again after the time the
\* timer would have fired next; the entry at ["a"], whose cacheTime has
\* elapsed, is still returned by get in both stores.
C20_Witness ==
    /\ last.op = "stopGarbageCollector"
    /\ ~gcIntervalId
    /\ now > nextGc
    /\ MemRaw(store, <<sa>>) # <<>>
    /\ Aged(MemRaw(store, <<sa>>)[1].entry, now)
    /\ MemGet(store, <<sa>>, now).data \in Data
    /\ MMKVRaw(mmkv, <<sa>>) # <<>>
    /\ Aged(JSONparse(MMKVRaw(mmkv, <<sa>>)[1]), now)
    /\ MMKVGet(mmkv, <<sa>>, now).data \in Data

\* ----------------------------------------------- claims: queryWithCache
\* The events ev of a call, in order, and what its fetch resolved to.
Events(q, ev) == SelectSeq(q.log, LAMBDA e : e.ev = ev)
Result(q) == Events(q, "resolve")[1].arg

\* The last step completed a queryWithCache call.
Completed ==
    /\ last.op \in {"queryWithCache", "resolve", "reject"}
    /\ last.query.pc \in {"resolved", "rejected"}

\* C11: a call that found no entry at its key and whose fetch resolved to R
\* has called onData exactly once, with R, and when it completes get(key)
\* returns {data: R, stale: false}; for every R.
C11_MissThenFetch ==
    (last.op = "resolve" /\ last.query.stored = <<>>) =>
        /\ Events(last.query, "onData") = <<Ev("onData", Result(last.query))>>
        /\ cacheGet(last.key) = Hit(Result(last.query), FALSE)

\* C12: a call that finds an entry that is not stale at its key calls
\* onData once with the entry's data and returns in the same step, without
\* invoking queryFn or onIsFetching, and leaves the entry as it was; for
\* every data value stored.
C12_FreshHit ==
    (/\ last.op = "queryWithCache"
     /\ last.query.stored # <<>>
     /\ ~isStale(last.query.stored[1], now)) =>
        /\ last.query.log = <<Ev("onData", last.query.stored[1].data),
                              Ev("return", UndefinedData)>>
        /\ cacheEntryAt(last.key) = last.query.stored

\* C13: a call that finds a stale entry at its key and whose fetch resolves
\* to a value that is not deep-equal to the entry's data has called onData
\* exactly twice, with the cached data and then with the fetched value; and
\* no call, in flight or completed, has called onData more than twice.
C13_StaleHit ==
    /\ (/\ last.op = "resolve"
        /\ last.query.stored # <<>>
        /\ last.query.cacheEntry.stale
        /\ ~isEqual(Result(last.query), last.query.stored[1].data)) =>
            Events(last.query, "onData") =
                <<Ev("onData", last.query.stored[1].data),
                  Ev("onData", Result(last.query))>>
    /\ last.op \in {"queryWithCache", "resolve", "reject"} =>
            Len(Events(last.query, "onData")) <= 2

\* C14: when a call completes after its fetch resolved to R, the entry at
\* its key is the one set creates for R at that time with the caller's
\* overrides (the store's defaults where none is given), so get(key) returns
\* {data: R, stale: false}, whether or not R equals the data read at the
\* start; and if the entry read was stale and R is deep-equal to its data,
\* onData was not called after the fetch.
C14_SuccessfulFetchIsWritten ==
    last.op = "resolve" =>
        LET q == last.query
        IN /\ cacheEntryAt(q.key) =
                <<NewEntry(options, Result(q), q.args.cacheExpirationTime,
                           q.args.cacheStoredTime, now)>>
           /\ cacheGet(q.key) = Hit(Result(q), FALSE)
           /\ (/\ q.stored # <<>>
               /\ q.cacheEntry.stale
               /\ isEqual(Result(q), q.stored[1].data)) =>
                    /\ Len(Events(q, "onData")) <= 1
                    /\ \A i \in 1..Len(q.log) :
                          q.log[i].ev = "onData" =>
                              \A j \in 1..i : q.log[j].ev # "resolve"

\* C14 witness: a call with a staleTime override read a stale entry written
\* earlier, its fetch resolved to a distinct object deep-equal to the cached
\* one, onData was called once (with the cached object), and the entry now
\* holds the fetched object and is fresh.
C14_Witness ==
    /\ last.op = "resolve"
    /\ last.query.stored # <<>>
    /\ last.query.cacheEntry.stale
    /\ last.query.stored[1].timestamp < now
    /\ last.query.args.cacheExpirationTime # Undefined
    /\ Result(last.query) # last.query.stored[1].data
    /\ isEqual(Result(last.query), last.query.stored[1].data)
    /\ Events(last.query, "onData") = <<Ev("onData", last.query.stored[1].data)>>
    /\ cacheGet(last.key) = Hit(Result(last.query), FALSE)

\* The error the fetch of a call rejected with, and the index of the
\* queryFn() invocation in its log.
Rejection(q) == Events(q, "reject")[1].arg
Invoked(q) == CHOOSE i \in 1..Len(q.log) : q.log[i].ev = "queryFn"

\* C15: the step in which the fetch of a call with an onError callback
\* rejects with E calls onError once, with E, completes the call normally,
\* calls onData with nothing after the fetch was invoked, and leaves both
\* stores, and so the entry at the call's key, as they were.
C15_RejectWithOnError ==
    [][(last'.op = "reject" /\ last'.query.args.onError) =>
        LET q == last'.query
        IN /\ Events(q, "onError") = <<Ev("onError", Rejection(q))>>
           /\ q.pc = "resolved"
           /\ q.log[Len(q.log)] = Ev("return", UndefinedData)
           /\ \A i \in 1..Len(q.log) : q.log[i].ev = "onData" => i < Invoked(q)
           /\ store' = store
           /\ mmkv' = mmkv
           /\ \A k \in keys : cacheEntryAt(k)' = cacheEntryAt(k)]_vars

\* C15 witness: the fetch of a call with onError that had read a stale entry
\* rejected; onError was called and the stale entry is still stored, with
\* its data and timestamp.
C15_Witness ==
    /\ last.op = "reject"
    /\ last.query.args.onError
    /\ last.query.stored # <<>>
    /\ last.query.cacheEntry.stale
    /\ Truthy(last.query.cacheEntry.data)
    /\ Events(last.query, "onError") = <<Ev("onError", "E")>>
    /\ cacheEntryAt(last.key) = last.query.stored

\* C16: the step in which the fetch of a call without an onError callback
\* rejects with E makes the call fail with E, as its last event, and changes
\* neither store; if the call found no entry and has an onIsFetching
\* callback, onIsFetching(true) came before the fetch was invoked and
\* onIsFetching(false) after it rejected, and no other onIsFetching call.
C16_RejectWithoutOnError ==
    [][(last'.op = "reject" /\ ~last'.query.args.onError) =>
        LET q == last'.query
            n == Len(q.log)
        IN /\ q.pc = "rejected"
           /\ q.log[n] = Ev("throw", Rejection(q))
           /\ Events(q, "onError") = <<>>
           /\ store' = store
           /\ mmkv' = mmkv
           /\ (q.stored = <<>> /\ q.args.onIsFetching) =>
                /\ Events(q, "onIsFetching") =
                      <<Ev("onIsFetching", "true"), Ev("onIsFetching", "false")>>
                /\ q.log[Invoked(q) - 1] = Ev("onIsFetching", "true")
                /\ q.log[n - 1] = Ev("onIsFetching", "false")
                /\ q.log[n - 2] = Ev("reject", Rejection(q))]_vars

\* C16 witness: a call with onIsFetching and without onError found no entry,
\* its fetch rejected with E, and the call failed with E.
C16_Witness ==
    /\ last.op = "reject"
    /\ ~last.query.args.onError
    /\ last.query.args.onIsFetching
    /\ last.query.stored = <<>>
    /\ last.query.pc = "rejected"
    /\ last.query.log[Len(last.query.log)] = Ev("throw", "E")
    /\ cacheEntryAt(last.key) = <<>>

\* C17: a completed call has called onIsFetching not at all, or twice, with
\* true right before the fetch was invoked and with false after the fetch
\* settled; it has called it exactly when onIsFetching was supplied and the
\* initial read returned no data (data: null).
C17_FetchingPairing ==
    Completed =>
        LET q == last.query
            fetching == Events(q, "onIsFetching")
            n == Len(q.log)
        IN /\ fetching \in {<<>>, <<Ev("onIsFetching", "true"),
                                    Ev("onIsFetching", "false")>>}
           /\ fetching # <<>> <=> (q.args.onIsFetching /\ q.cacheEntry.data = Null)
           /\ fetching # <<>> =>
                /\ q.log[Invoked(q) - 1] = Ev("onIsFetching", "true")
                /\ q.log[n - 1] = Ev("onIsFetching", "false")
                /\ \E i \in Invoked(q)..(n - 2) : q.log[i].ev \in {"resolve", "reject"}

\* ------------------------------------------------------ claims: options
\* The time an entry gets: the call's argument if given, else the store's
\* default if given, else the library default; 0 is a value given.
Precedence(arg, storeDefault, libraryDefault) ==
    IF arg # Undefined THEN arg[1]
    ELSE IF storeDefault # Undefined THEN storeDefault[1]
    ELSE libraryDefault

\* C18: right after set on a store constructed with any options, the entry
\* created has, in both stores, the staleTime and the cacheTime that the
\* precedence gives, each resolved on its own.
C18_TimePrecedence ==
    (last.op = "set" /\ Len(last.key) > 0) =>
        LET staleTime == Precedence(last.staleTime, options.defaultStaleTime,
                                    DEFAULT_STALE_TIME)
            cacheTime == Precedence(last.cacheTime, options.defaultCacheTime,
                                    DEFAULT_CACHE_TIME)
            expected == CacheEntry(last.data, now, staleTime, cacheTime)
        IN /\ MemRaw(store, last.key) = <<EntryValue(expected)>>
           /\ JSONparse(MMKVRaw(mmkv, last.key)[1]) = expected

\* C18 witness: set with staleTime 0 and no cacheTime on a store constructed
\* with defaultStaleTime 1, defaultCacheTime 0 and no gcInterval: the entry
\* has staleTime 0, the argument, and cacheTime 0, the store's default.
C18_Witness ==
    /\ last.op = "set"
    /\ last.staleTime = <<0>>
    /\ last.cacheTime = Undefined
    /\ options.defaultStaleTime = <<1>>
    /\ options.defaultCacheTime = <<0>>
    /\ options.gcInterval = Undefined
    /\ MemRaw(store, last.key)[1].entry.staleTime = 0
    /\ MemRaw(store, last.key)[1].entry.cacheTime = 0
    /\ JSONparse(MMKVRaw(mmkv, last.key)[1]).staleTime = 0
    /\ JSONparse(MMKVRaw(mmkv, last.key)[1]).cacheTime = 0

\* ------------------------------------------- claims: calls and removals
\* Whether onData(d) was called after the fetch of call q resolved.
DeliveredAfterFetch(q, d) ==
    \E i \in 1..Len(q.log) :
        /\ q.log[i] = Ev("onData", d)
        /\ \E j \in 1..(i - 1) : q.log[j].ev = "resolve"

\* C25: when the entry a call read at its key was removed (by invalidate of
\* the key or of a prefix, or by a sweep) while the call awaited its fetch,
\* and the fetch resolved to R, the call wrote R all the same: get(K) returns
\* {data: R, stale: false} once the call has completed, and onData(R) was
\* called after the fetch iff R is not deep-equal to the data the call read.
C25_RemovalDoesNotCancelWrite ==
    (/\ last.op = "resolve"
     /\ last.query.stored # <<>>
     /\ last.query.removed) =>
        LET q == last.query
        IN /\ q.pc = "resolved"
           /\ cacheGet(q.key) = Hit(Result(q), FALSE)
           /\ DeliveredAfterFetch(q, Result(q)) <=>
                 ~isEqual(Result(q), q.stored[1].data)

\* C25 witness: a call read the stale entry "d2" at its key, the entry was
\* removed while the call awaited, the fetch resolved to "d1", onData("d1")
\* was called and get returns "d1", fresh.
C25_Witness ==
    /\ last.op = "resolve"
    /\ last.query.stored # <<>>
    /\ last.query.stored[1].data = "d2"
    /\ last.query.cacheEntry.stale
    /\ last.query.removed
    /\ Result(last.query) = "d1"
    /\ DeliveredAfterFetch(last.query, "d1")
    /\ cacheGet(last.key) = Hit("d1", FALSE)

\* C25 witness of the other side: the fetch resolved to an object deep-equal
\* to the data read, and onData was not called again.
C25_WitnessEqual ==
    /\ last.op = "resolve"
    /\ last.query.stored # <<>>
    /\ last.query.removed
    /\ last.query.stored[1].data = "d1"
    /\ Result(last.query) = "d1r"
    /\ ~DeliveredAfterFetch(last.query, "d1r")

\* ------------------------------------------- claims: overlapping calls
\* The calls that have started: those in flight, and the one the last step
\* belongs to.
StartedCalls ==
    {queries[c] : c \in {d \in DOMAIN queries : queries[d] # Idle}}
    \cup (IF last.op \in {"queryWithCache", "resolve", "reject"}
          THEN {last.query} ELSE {})

\* C24: when another call for the same key resolved while a call awaited
\* its fetch, and the call's own fetch then resolves to R, the entry holds R
\* once the call has completed, whichever of the two started first; and if R
\* is not deep-equal to what the call read, its onData(R) comes after the
\* other call settled (and so after the other call's onData).
C24_LastSettledWins ==
    (last.op = "resolve" /\ last.query.overtaken # <<>>) =>
        LET q == last.query
        IN /\ cacheEntryAt(q.key) # <<>>
           /\ cacheEntryAt(q.key)[1].data = Result(q)
           /\ cacheGet(q.key) = Hit(Result(q), FALSE)
           /\ ~isEqual(Result(q), q.cacheEntry.data) =>
                 \E i \in 1..Len(q.log) :
                     /\ q.log[i] = Ev("onData", Result(q))
                     /\ i > q.overtaken[1].at

\* C24 witness: a call started on an empty cache with no other call in
\* flight; a call started after it resolved to "d1" and called onData("d1")
\* while the first awaited; then the first resolved to "d2", called
\* onData("d2"), and the entry holds "d2".
C24_Witness ==
    /\ last.op = "resolve"
    /\ last.query.stored = <<>>
    /\ last.query.before = {}
    /\ last.query.overtaken # <<>>
    /\ last.query.overtaken[1].result = "d1"
    /\ last.query.overtaken[1].onData
    /\ Result(last.query) = "d2"
    /\ DeliveredAfterFetch(last.query, "d2")
    /\ cacheGet(last.key) = Hit("d2", FALSE)

\* C24 witness of the other order: the call that settled last had started
\* while the other was in flight.
C24_WitnessStartedLater ==
    /\ last.op = "resolve"
    /\ last.query.before # {}
    /\ last.query.overtaken # <<>>
    /\ last.query.overtaken[1].result = "d1"
    /\ Result(last.query) = "d2"
    /\ cacheGet(last.key) = Hit("d2", FALSE)

\* C22: every call of queryWithCache, in flight or completed, whatever other
\* calls are in flight, has invoked queryFn once if its read found no entry
\* or a stale one, and never otherwise; a call whose fetch rejected has
\* invoked it once.
C22_OneFetchPerCall ==
    \A q \in StartedCalls :
        Len(Events(q, "queryFn")) =
            (IF q.stored = <<>> \/ q.cacheEntry.stale THEN 1 ELSE 0)

\* C26: with every call reporting to the one flag state.isLoading, the flag
\* is true in every state where a call that found no entry at its key still
\* awaits its fetch, and false in every state where no call awaits.
C26_SharedLoadingFlag ==
    /\ (\E c \in DOMAIN queries :
            /\ queries[c] # Idle
            /\ queries[c].args.onIsFetching
            /\ queries[c].stored = <<>>) => isLoading
    /\ (\A c \in DOMAIN queries : queries[c] = Idle) => ~isLoading

\* ------------------------------------------------ claims: entry lifecycle
\* Whether the entry read at key in the tree, if one is, is older than its
\* cacheTime; the same for the record of the flat store.
MemExpired(key) ==
    /\ MemRaw(store, key) # <<>>
    /\ ~MemRaw(store, key)[1].isMap
    /\ Aged(MemRaw(store, key)[1].entry, now)
MMKVExpired(key) ==
    /\ MMKVRaw(mmkv, key) # <<>>
    /\ Aged(JSONparse(MMKVRaw(mmkv, key)[1]), now)

\* One step of the life of the entry of key k, seen through get: before and
\* after are what get(k) returns before and after the step, expired whether
\* the entry was older than its cacheTime before it.
LifecycleStep(k, before, after, expired) ==
    LET setK == last'.op = "set" /\ last'.key = k
        removal ==
            \/ last'.op = "invalidate" /\ IsPrefix(last'.key, k)
            \/ last'.op \in {"cleanUp", "gc"} /\ expired
    IN /\ (before = Miss /\ after # Miss) => (setK /\ ~after.stale)
       /\ (before # Miss /\ before.stale /\ after # Miss /\ ~setK) =>
             (after.stale /\ after.data = before.data)
       /\ (before # Miss /\ before.stale /\ after # Miss /\ ~after.stale) => setK
       /\ (before # Miss /\ after = Miss) => removal

\* C23: on either backend the entry of a key goes absent, fresh, stale,
\* absent: only set(K) makes get(K) hit, and the hit is fresh; once get(K)
\* is stale it stays stale, with the same data, until set(K) or a removal;
\* only set(K) makes a stale entry fresh; and only invalidate of K or of a
\* prefix of K, or a sweep when the entry is older than its cacheTime, makes
\* a present entry absent.
C23_EntryLifecycle ==
    [][\A k \in keys :
          /\ LifecycleStep(k, MemGet(store, k, now), MemGet(store', k, now'),
                           MemExpired(k))
          /\ LifecycleStep(k, MMKVGet(mmkv, k, now), MMKVGet(mmkv', k, now'),
                           MMKVExpired(k))]_vars

\* -------------------------------------------------- claims: key encoding
\* C27: in every state of the in-memory store the value bound under the
\* marker "cacheEntry" is a cache entry and the value bound under any other
\* segment is a Map, whatever the segments of the keys; and set never throws.
C27_TreeWellFormed ==
    /\ \A p \in DOMAIN store \ {<<>>} :
          store[p].isMap <=> p[Len(p)] # sMarker
    /\ last.op = "set" => ~last.threw

\* C28: two different keys never share a record of the flat store, whatever
\* characters their segments hold: set(K) leaves what the flat store's get
\* returns unchanged for every key other than K.
C28_FlatKeysInjective ==
    [][(last'.op = "set" /\ Len(last'.key) > 0) =>
        \A k \in keys \ {last'.key} :
            MMKVGet(mmkv', k, now') = MMKVGet(mmkv, k, now)]_vars

\* ------------------------------------------- claims: persisted records
\* C21: in the flat store, get of a key whose record does not parse returns
\* {data: null, stale: false}; and a cleanUp does not throw, and after it no
\* record that parses is expired.
C21_UnparseableRecordIsMiss ==
    /\ \A k \in keys :
          (MMKVRaw(mmkv, k) # <<>> /\ ~Parses(MMKVRaw(mmkv, k)[1])) =>
              MMKVGet(mmkv, k, now) = Miss
    /\ last.op = "cleanUp" =>
          /\ ~last.threw
          /\ \A k \in DOMAIN mmkv :
                Parses(mmkv[k]) => ~Aged(JSONparse(mmkv[k]), now)

====
